---- MODULE Spec2Model ----
(***************************************************************************)
(* Model of auto_slicer/slice_stl.py: the rotation search                  *)
(* (slice_stl_brute_force_rotation_no_support), the single slicing attempt *)
(* (slice_stl_no_support) and the gcode analysis it calls                  *)
(* (estimate_fraction_of_support_material and its helpers).                *)
(*                                                                         *)
(* Text is modelled as sequences.  The slicer's stdout is a sequence of    *)
(* tokens: the marker text is one token, every other token is one          *)
(* character, so offsets behind the marker count tokens as the code counts *)
(* characters.  A gcode file is a sequence of lines, each reduced to what  *)
(* the regular expressions of the analysis can see.  Lengths and volumes   *)
(* are integers (see Line and CylinderVolume).                             *)
(***************************************************************************)
EXTENDS Integers, Sequences, FiniteSets, TLC

\* ------------------------------------------------------------------ bounds

\* longest slicer stdout the environment produces, in tokens
MaxOut == 4

\* longest gcode file the analysis is checked on, in lines
MaxLines == 4

\* the longest body (the lines behind the two profile comments) of a gcode
\* file analysed in rounded arithmetic
MaxBody == 5

\* the significant bits of the floating-point format of the rounded
\* arithmetic (a Python float has 53)
MantissaBits == 5

\* the longest list of file paths in a file dictionary
MaxFiles == 2

\* ------------------------------------------------------------ optional values

\* Python's None, and a present value; an optional is a sequence of length <= 1
None == <<>>

Some(x) == <<x>>

\* ------------------------------------------------------------------- paths

\* A directory is a sequence of components (absolute when it starts with "/");
\* a file path is a directory, a stem and an extension, the file name split
\* as os.path.splitext(os.path.basename(path)) splits it.
Cwd == <<"/", "cwd">>

\* os.path.abspath on a directory
Abspath(dir) == IF dir # <<>> /\ dir[1] = "/" THEN dir ELSE Cwd \o dir

\* os.path.dirname on a file path
Dirname(path) == path.dir

\* the part files the search is called with
StlPaths ==
    { [dir |-> <<"/", "parts">>, stem |-> "part", ext |-> "stl"],
      [dir |-> <<"/", "parts", "v2">>, stem |-> "bracket.v2", ext |-> "stl"] }

\* the output_folder_path arguments the search is called with (None: default)
OutputFolderArgs == { None, Some(<<"out">>) }

\* the slicer configuration path (opaque)
ConfigPath == [dir |-> <<"/", "cfg">>, stem |-> "default", ext |-> "ini"]

\* ------------------------------------------------------------------- gcode

\* One gcode line as the analysis sees it:
\*   "nozzle"        ; nozzle_diameter = <val>     (val in 0.1 mm)
\*   "layer"         ; layer_height = <val>        (val in 0.1 mm)
\*   "type_support"  ;TYPE:Support material
\*   "type_other"    ;TYPE:<any other name>
\*   "g1e"           G1 ... E<val>                 (val in mm)
\*   "other"         any line none of the patterns match
Line(kind, val) == [kind |-> kind, val |-> val]

\* gcode files the slicer writes during a search: a complete file, a file
\* without profile comments, a file without extrusion
GcodeFull ==
    << Line("nozzle", 4), Line("layer", 2), Line("type_other", 0),
       Line("g1e", 2), Line("type_support", 0), Line("g1e", 3) >>

GcodeNoProfile == << Line("type_other", 0), Line("g1e", 2) >>

GcodeNoExtrusion == << Line("nozzle", 4), Line("layer", 2) >>

GcodeSamples == { GcodeFull, GcodeNoProfile, GcodeNoExtrusion }

\* the lines of the gcode files the analysis is checked on
GcodeLines ==
    { Line("nozzle", 4), Line("nozzle", 6), Line("layer", 2),
      Line("type_support", 0), Line("type_other", 0), Line("other", 0),
      Line("g1e", 0), Line("g1e", 1), Line("g1e", 2) }

\* every gcode file of at most MaxLines of these lines
Gcodes == UNION { [1..n -> GcodeLines] : n \in 0..MaxLines }

\* the nozzle_diameter arguments the volume functions are called with
NozzleArgs == { 4 }

\* 3.14159, in units of 1e-5
PiApprox == 314159

\* 3.14159 * (nozzle_diameter / 2) ** 2 * extruded_length, times 4 * 10^7
\* (diameter in 0.1 mm, length in mm), so that the value is an integer
CylinderVolume(nozzle_diameter, extruded_length) ==
    PiApprox * nozzle_diameter * nozzle_diameter * extruded_length

RECURSIVE ProfileScanNoBreak(_, _, _, _)
\* the loop without its break: every line is read
ProfileScanNoBreak(gcode, i, nozzle_diameter, layer_height) ==
    IF i > Len(gcode)
    THEN [nozzle |-> nozzle_diameter, layer |-> layer_height, read |-> Len(gcode)]
    ELSE ProfileScanNoBreak(gcode, i + 1,
                            IF gcode[i].kind = "nozzle" THEN Some(gcode[i].val)
                            ELSE nozzle_diameter,
                            IF gcode[i].kind = "layer" THEN Some(gcode[i].val)
                            ELSE layer_height)

RECURSIVE ProfileScan(_, _, _, _)
\* the loop of estimate_nozzle_and_layer_height from line i on
ProfileScan(gcode, i, nozzle_diameter, layer_height) ==
    IF i > Len(gcode)
    THEN [nozzle |-> nozzle_diameter, layer |-> layer_height, read |-> Len(gcode)]
    ELSE LET nz == IF gcode[i].kind = "nozzle" THEN Some(gcode[i].val)
                   ELSE nozzle_diameter
             lh == IF gcode[i].kind = "layer" THEN Some(gcode[i].val)
                   ELSE layer_height
         IN  IF nz # None /\ lh # None
             THEN [nozzle |-> nz, layer |-> lh, read |-> i]
             ELSE ProfileScan(gcode, i + 1, nz, lh)

\* estimate_nozzle_and_layer_height: exc is the exception raised ("none" when
\* it returns), read the number of lines read
EstimateNozzleAndLayerHeight(gcode) ==
    LET s == ProfileScan(gcode, 1, None, None)
    IN  IF s.nozzle = None \/ s.layer = None
        THEN [exc |-> "ValueError", nozzle |-> 0, layer |-> 0, read |-> s.read]
        ELSE [exc |-> "none", nozzle |-> s.nozzle[1], layer |-> s.layer[1],
              read |-> s.read]

\* the two tests in the other order: every ;TYPE: line clears the flag
NextIsSupportAnyTypeClears(line, is_support) ==
    IF line.kind \in { "type_support", "type_other" } THEN FALSE ELSE is_support

\* the region flag after a line: a "type_support" line contains
\* ";TYPE:Support material", a "type_other" line contains ";TYPE:" without it
NextIsSupport(line, is_support) ==
    IF line.kind = "type_support" THEN TRUE
    ELSE IF line.kind = "type_other" THEN FALSE
    ELSE is_support

\* the locals of a volume function before its loop (lines 72-77, 118-123);
\* added is the extruded_length the last line read added (None: none)
VolumeScanStart ==
    [is_support |-> FALSE, last_extrusion |-> 0, added |-> None, volume |-> 0]

\* the loop body with `last_extrusion = current_extrusion` left out
VolumeStepKeepLast(line, nozzle_diameter, want_support, st) ==
    LET sup == NextIsSupport(line, st.is_support)
        hit == line.kind = "g1e" /\ sup = want_support
        extruded_length == line.val - st.last_extrusion
    IN  [is_support |-> sup,
         last_extrusion |-> st.last_extrusion,
         added |-> IF hit THEN Some(extruded_length) ELSE None,
         volume |-> IF hit
                    THEN st.volume + CylinderVolume(nozzle_diameter, extruded_length)
                    ELSE st.volume]

\* one iteration of the loop shared by estimate_support_volume
\* (want_support = TRUE) and estiamte_non_support_volume (want_support =
\* FALSE): the locals st after reading line
VolumeStep(line, nozzle_diameter, want_support, st) ==
    LET sup == NextIsSupport(line, st.is_support)
        hit == line.kind = "g1e" /\ sup = want_support
        extruded_length == line.val - st.last_extrusion
    IN  [is_support |-> sup,
         last_extrusion |-> IF hit THEN line.val ELSE st.last_extrusion,
         added |-> IF hit THEN Some(extruded_length) ELSE None,
         volume |-> IF hit
                    THEN st.volume + CylinderVolume(nozzle_diameter, extruded_length)
                    ELSE st.volume]

RECURSIVE VolumeScan(_, _, _, _, _, _, _)
\* the loop of a volume function from line i on
VolumeScan(gcode, nozzle_diameter, want_support, i, is_support, last_extrusion, volume) ==
    IF i > Len(gcode) THEN volume
    ELSE LET st == VolumeStep(gcode[i], nozzle_diameter, want_support,
                              [is_support |-> is_support,
                               last_extrusion |-> last_extrusion,
                               added |-> None, volume |-> volume])
         IN  VolumeScan(gcode, nozzle_diameter, want_support, i + 1,
                        st.is_support, st.last_extrusion, st.volume)

\* estimate_support_volume
EstimateSupportVolume(gcode, nozzle_diameter) ==
    VolumeScan(gcode, nozzle_diameter, TRUE, 1, FALSE, 0, 0)

\* estiamte_non_support_volume
EstiamteNonSupportVolume(gcode, nozzle_diameter) ==
    VolumeScan(gcode, nozzle_diameter, FALSE, 1, FALSE, 0, 0)

\* lines 166-177 without the test of line 168
FractionResultUnchecked(sv, nsv) ==
    [exc |-> "none", num |-> sv, den |-> sv + nsv]

\* lines 166-177: the fraction is the pair support / total, kept as
\* numerator and denominator
FractionResult(sv, nsv) ==
    LET total_volume == sv + nsv
    IN  IF total_volume = 0 THEN [exc |-> "ValueError", num |-> 0, den |-> 0]
        ELSE [exc |-> "none", num |-> sv, den |-> total_volume]

\* estimate_fraction_of_support_material
EstimateFractionOfSupportMaterial(gcode) ==
    LET p == EstimateNozzleAndLayerHeight(gcode)
    IN  IF p.exc # "none" THEN [exc |-> p.exc, num |-> 0, den |-> 0]
        ELSE FractionResult(EstimateSupportVolume(gcode, p.nozzle),
                            EstiamteNonSupportVolume(gcode, p.nozzle))

\* ------------------------------------------------------ rounded arithmetic

\* The volume functions compute in binary floating point.  Above, their
\* arithmetic is exact; here every operation rounds its result to
\* MantissaBits significant bits, to nearest, ties to even, as float does
\* with 53 bits.

RECURSIVE FloorLog2(_)
\* the position of the leading bit of m >= 1
FloorLog2(m) == IF m < 2 THEN 0 ELSE 1 + FloorLog2(m \div 2)

Abs(x) == IF x < 0 THEN 0 - x ELSE x

\* x rounded to MantissaBits significant bits
Fl(x) ==
    LET m == Abs(x)
        q == 2 ^ (FloorLog2(m) - MantissaBits + 1)
        lo == (m \div q) * q
        rem == m - lo
        r == IF rem * 2 < q THEN lo
             ELSE IF rem * 2 > q THEN lo + q
             ELSE IF (m \div q) % 2 = 0 THEN lo ELSE lo + q
    IN  IF m < 2 ^ MantissaBits THEN x
        ELSE IF x < 0 THEN 0 - r ELSE r

\* the loop body with the subtraction the wrong way round
RoundedVolumeStepReversed(line, nozzle_diameter, want_support, st) ==
    LET sup == NextIsSupport(line, st.is_support)
        hit == line.kind = "g1e" /\ sup = want_support
        extruded_length == Fl(st.last_extrusion - line.val)
        area == Fl(PiApprox * Fl(nozzle_diameter * nozzle_diameter))
    IN  [is_support |-> sup,
         last_extrusion |-> IF hit THEN line.val ELSE st.last_extrusion,
         added |-> IF hit THEN Some(extruded_length) ELSE None,
         volume |-> IF hit
                    THEN Fl(st.volume + Fl(area * extruded_length))
                    ELSE st.volume]

\* one iteration of the loop of a volume function, as VolumeStep, in rounded
\* arithmetic: `3.14159 * (radius ** 2) * extruded_length` multiplies from
\* the left, and `+=` rounds the sum
RoundedVolumeStep(line, nozzle_diameter, want_support, st) ==
    LET sup == NextIsSupport(line, st.is_support)
        hit == line.kind = "g1e" /\ sup = want_support
        extruded_length == Fl(line.val - st.last_extrusion)
        area == Fl(PiApprox * Fl(nozzle_diameter * nozzle_diameter))
    IN  [is_support |-> sup,
         last_extrusion |-> IF hit THEN line.val ELSE st.last_extrusion,
         added |-> IF hit THEN Some(extruded_length) ELSE None,
         volume |-> IF hit
                    THEN Fl(st.volume + Fl(area * extruded_length))
                    ELSE st.volume]

\* lines 166-177 in rounded arithmetic: the total is a rounded sum
RoundedFractionResult(sv, nsv) ==
    LET total_volume == Fl(sv + nsv)
    IN  IF total_volume = 0 THEN [exc |-> "ValueError", num |-> 0, den |-> 0]
        ELSE [exc |-> "none", num |-> sv, den |-> total_volume]

\* the lines of the bodies analysed in rounded arithmetic
BodyLines ==
    { Line("type_support", 0), Line("type_other", 0),
      Line("g1e", 0), Line("g1e", 1), Line("g1e", 3) }

\* files with both profile comments and a body of at most MaxBody lines
RoundedGcodes ==
    { << Line("nozzle", 4), Line("layer", 2) >> \o b :
        b \in UNION { [1..n -> BodyLines] : n \in 0..MaxBody } }

\* ---------------------------------------------------------- slicer stdout

\* the literal of line 279, one token
Marker == "Detected print stability issues"

\* the literal of lines 284-286: the marker followed by a colon
MarkerColon == <<Marker, ":">>

\* the tokens of a stdout text: the marker, a colon, a newline, any other character
Tokens == { Marker, ":", "\n", "a" }

\* every stdout text of at most MaxOut tokens
Stdouts == UNION { [1..n -> Tokens] : n \in 0..MaxOut }

\* stdout texts of the slicer runs of a search: no warning; the warning as
\* the slicer prints it (the detail on the line after the marker); the
\* marker without a colon; the marker and colon at the very end
StdoutSamples ==
    { <<"a", "\n">>,
      <<"a", "\n", Marker, ":", "\n", "a", "\n">>,
      <<Marker, "\n">>,
      <<"a", "\n", Marker, ":">> }

\* Python's `sub in s`
Contains(s, sub) ==
    \E i \in 1..(Len(s) - Len(sub) + 1) : SubSeq(s, i, i + Len(sub) - 1) = sub

\* Python's s.index(sub, start) with positions counted from 1: the first
\* position >= start where sub occurs, None where Python raises ValueError
Index(s, sub, start) ==
    LET hits == { i \in start..(Len(s) - Len(sub) + 1) :
                      SubSeq(s, i, i + Len(sub) - 1) = sub }
    IN  IF hits = {} THEN None
        ELSE Some(CHOOSE i \in hits : \A j \in hits : i <= j)

\* -------------------------------------------------------------------- disk

\* The gcode files on disk: a function from the paths that exist to their
\* content [by: number of the attempt that wrote it (0: before the search),
\* gcode: the lines].
NoFiles == [p \in {} |-> 0]

WriteFile(files, path, content) ==
    [p \in (DOMAIN files) \cup {path} |-> IF p = path THEN content ELSE files[p]]

DeleteFile(files, path) == [p \in (DOMAIN files) \ {path} |-> files[p]]

RECURSIVE RemoveAll(_, _, _)
\* `for file in generated_files: os.remove(file)`: os.remove raises
\* FileNotFoundError for a path that does not exist, which ends the loop
RemoveAll(files, generated, removed) ==
    IF generated = <<>> THEN [files |-> files, exc |-> "none", removed |-> removed]
    ELSE IF Head(generated) \notin DOMAIN files
    THEN [files |-> files, exc |-> "FileNotFoundError", removed |-> removed]
    ELSE RemoveAll(DeleteFile(files, Head(generated)), Tail(generated),
                   Append(removed, Head(generated)))

\* ---------------------------------------------------- the external slicer

\* What one run of the slicer process does: whether it could be launched, its
\* exit status, its stdout, and the gcode it wrote to the requested path
\* (None: it wrote nothing).  A run that exits with status 0 has exported
\* its gcode.
ProcsWith(stdouts) ==
    { [launched |-> FALSE, returncode |-> 1, stdout |-> <<>>, wrote |-> None] }
    \cup
    { [launched |-> TRUE, returncode |-> 0, stdout |-> s, wrote |-> Some(g)] :
        s \in stdouts, g \in GcodeSamples }
    \cup
    { [launched |-> TRUE, returncode |-> 1, stdout |-> s, wrote |-> w] :
        s \in stdouts, w \in { None, Some(GcodeFull) } }

\* the slicer runs a single Executor call is checked against
Procs == ProcsWith(Stdouts)

\* the slicer runs of a search
SearchProcs == ProcsWith(StdoutSamples)

\* ------------------------------------------- outcomes (property vocabulary)

\* The outcome Clean of one slicer run, as the specification defines it: the
\* process ran, exited with status zero, and its output lacks the marker.
\* Not part of the code: the properties and the attempt log are stated in it.
IsClean(proc) ==
    proc.launched /\ proc.returncode = 0 /\ ~Contains(proc.stdout, <<Marker>>)

\* The three outcomes of the specification: Failed (no zero exit status, a
\* launch error included), Warned (zero exit status, marker present), Clean.
Outcome(proc) ==
    IF ~proc.launched \/ proc.returncode # 0 THEN "Failed"
    ELSE IF Contains(proc.stdout, <<Marker>>) THEN "Warned"
    ELSE "Clean"

\* ------------------------------------------------------------ the Executor

\* an output file name that carries the rotation
OutputPathPerRotation(stl_path, output_folder, degrees, axis) ==
    [dir |-> output_folder, stem |-> <<stl_path.stem, axis, degrees>>,
     ext |-> "gcode"]

\* an output path beside the part file, whatever the output folder
OutputPathBesideStl(stl_path, output_folder, degrees, axis) ==
    [dir |-> stl_path.dir, stem |-> stl_path.stem, ext |-> "gcode"]

\* output_file_name and output_path; degrees and axis are in scope and unused
OutputPath(stl_path, output_folder, degrees, axis) ==
    [dir |-> output_folder, stem |-> stl_path.stem, ext |-> "gcode"]

\* slicer_command
SlicerCommand(stl_path, config_path, output_path, degrees, axis) ==
    [load |-> config_path, rotate_axis |-> axis, rotate |-> degrees,
     output |-> output_path, stl |-> stl_path]

\* check=False: no exit status raises
RaisesNever(proc) == FALSE

\* check=True: subprocess.run raises CalledProcessError on a non-zero status
RaisesCalledProcessError(proc) == proc.returncode # 0

\* the test of line 279 made with the literal of line 285
HasStabilityWarningColon(stdout) == Contains(stdout, MarkerColon)

\* the test of line 279
HasStabilityWarning(stdout) == Contains(stdout, <<Marker>>)

\* no except clause: the error leaves the function
OnCalledProcessErrorReraise == [ret |-> None, exc |-> "CalledProcessError"]

\* the except clause: log, fall through to `return None`
OnCalledProcessError == [ret |-> None, exc |-> "none"]

\* The else branch of lines 282-297: locate the warning text, then analyse
\* the gcode.  Every exception here leaves the function (only
\* CalledProcessError is caught).
WarnedBranch(stdout, files, output_path) ==
    LET warning_idx == Index(stdout, MarkerColon, 1)
        warning_start_idx == warning_idx[1] + Len(MarkerColon) + 1
        warning_end_idx == Index(stdout, <<"\n">>, warning_start_idx)
    IN  IF warning_idx = None THEN [ret |-> None, exc |-> "ValueError"]
        ELSE IF warning_end_idx = None THEN [ret |-> None, exc |-> "ValueError"]
        ELSE IF output_path \notin DOMAIN files
        THEN [ret |-> None, exc |-> "FileNotFoundError"]
        ELSE [ret |-> None,
              exc |-> EstimateFractionOfSupportMaterial(files[output_path].gcode).exc]

\* slice_stl_no_support, run against the slicer run proc, with files on disk;
\* n numbers the attempt.  ret is the value returned (None also when it
\* raises), exc the exception that leaves the function ("none": it returns).
SliceStlNoSupport(stl_path, config_path, output_folder, degrees, axis, proc, files, n) ==
    LET output_path == OutputPath(stl_path, output_folder, degrees, axis)
        cmd == SlicerCommand(stl_path, config_path, output_path, degrees, axis)
        after == IF proc.launched /\ proc.wrote # None
                 THEN WriteFile(files, output_path, [by |-> n, gcode |-> proc.wrote[1]])
                 ELSE files
        out == IF ~proc.launched THEN [ret |-> None, exc |-> "FileNotFoundError"]
               ELSE IF RaisesCalledProcessError(proc) THEN OnCalledProcessError
               ELSE IF ~HasStabilityWarning(proc.stdout)
               THEN [ret |-> Some(output_path), exc |-> "none"]
               ELSE WarnedBranch(proc.stdout, after, output_path)
    IN  [ret |-> out.ret, exc |-> out.exc, files |-> after, cmd |-> cmd]

\* ---------------------------------------------------------- the Controller

VARIABLES
    pc,                 \* of a search: "start", "y_loop", "x_loop", "returned",
                        \* "raised"; of a single Executor call: "exec_call",
                        \* "exec_done"
    stl_path,           \* argument of the search
    output_folder_arg,  \* argument of the search (None: not given)
    output_folder_path, \* the local of that name (None before line 197)
    rot_idx,            \* position of the running loop in its rotations
    generated_files,    \* the local list of that name
    sliced_path,        \* the value the last attempt returned
    disk,               \* the gcode files on disk
    proc_run,           \* the slicer run of the last attempt (None: none yet)
    attempts,           \* log: [axis, degrees, outcome, wrote] of every Executor
                        \* call; outcome: the Outcome of its slicer run, wrote:
                        \* whether that run wrote a gcode file
    slicer_cmds,        \* log: every command handed to subprocess.run
    removed,            \* log: every path os.remove deleted
    result,             \* the path the search returned (None: none)
    error,              \* the exception that left the search ("none": none)
    error_args          \* the arguments the RuntimeError of line 228 was made
                        \* with (<<>>: it was not raised)

\* A call of the gcode analysis from outside the search
VARIABLES
    apc,                \* "idle" (no such call), "call", "support_loop",
                        \* "non_support_loop", "sum", "done", "raised"
    gcode,              \* the lines of the file analysed
    entry,              \* what was called: "fraction"
                        \* (estimate_fraction_of_support_material) or "volumes"
                        \* (the two volume functions, one after the other)
    profile,            \* what estimate_nozzle_and_layer_height did (None: not run)
    nozzle_diameter,    \* the argument of the volume functions (None: not called)
    scan,               \* the running volume loop: the next line i and the locals
    support_volume,     \* value returned by estimate_support_volume (None: not yet)
    non_support_volume, \* value returned by estiamte_non_support_volume
    fraction,           \* [num, den] returned by the fraction function (None: none)
    aerror,             \* the exception that left the analysis ("none": none)
    first               \* log: how the first of two calls ended (None: it has
                        \* not ended)

svars == << pc, stl_path, output_folder_arg, output_folder_path, rot_idx,
            generated_files, sliced_path, disk, proc_run, attempts,
            slicer_cmds, removed, result, error, error_args >>

avars == << apc, gcode, entry, profile, nozzle_diameter, scan, support_volume,
            non_support_volume, fraction, aerror, first >>

\* Two searches of the same part into the same folder, run by two instances
\* of the program at the same time
VARIABLES
    orch                \* per instance: where it is in its search (pc, axis,
                        \* rot_idx), the slicer run it waits to handle (proc), the
                        \* output path of its running attempt (output), the
                        \* number of its attempts (n), what it returned (result)
                        \* and the exception that left it (error)

\* config.json and the calls of get_config_parameter and set_config_parameter
VARIABLES
    config_file,        \* the JSON object in config.json: member name text ->
                        \* member value text (None: there is no such file)
    cfg_written,        \* log: parameter -> the value the last
                        \* set_config_parameter that returned wrote for it
    cfg_last            \* log: the last call, [op, parameter, ret, exc]

\* A call of parts_data_from_file_dict
VARIABLES
    file_dict,          \* the argument (None: no call)
    parts_data          \* what the call did: [exc, items] (None: not yet)

\* The printer behind the OctoPrint server, and a call of pre_heat
VARIABLES
    printing,           \* the printer's flag state.flags.printing
    client,             \* the module's global of that name: "None" or "OctoRest"
    hpc,                \* of pre_heat: "idle", "called", "check", "tool_target",
                        \* "bed_target", "done", "raised"
    reported,           \* what is_print_job_active returned (None: not called)
    requests,           \* log: the targets set on the printer, each with the
                        \* printer's flag at that moment
    herror,             \* the exception that left pre_heat ("none": none)
    heat_call           \* the arguments of the pre_heat call, None before it

tvars == << orch >>

cvars == << config_file, cfg_written, cfg_last >>

fvars == << file_dict, parts_data >>

hvars == << printing, client, hpc, reported, requests, herror, heat_call >>

xvars == << tvars, cvars, fvars, hvars >>

vars == << svars, avars, xvars >>

\* no second instance of the program
TwoIdle == orch = <<>>

\* no call of the configuration functions
ConfigIdle ==
    /\ config_file = None
    /\ cfg_written = << >>
    /\ cfg_last = None

\* no call of parts_data_from_file_dict
PartsIdle ==
    /\ file_dict = None
    /\ parts_data = None

\* no call of pre_heat
HeatIdle ==
    /\ printing = FALSE
    /\ client = "None"
    /\ hpc = "idle"
    /\ reported = None
    /\ requests = <<>>
    /\ herror = "none"
    /\ heat_call = None

\* no analysis call from outside the search
AnalysisIdle ==
    /\ apc = "idle"
    /\ gcode = <<>>
    /\ entry = "none"
    /\ profile = None
    /\ nozzle_diameter = None
    /\ scan = [i |-> 1] @@ VolumeScanStart
    /\ support_volume = None
    /\ non_support_volume = None
    /\ fraction = None
    /\ aerror = "none"
    /\ first = None

\* max_rotation
MaxRotation == 360

\* range(0, max_rotation + 1, 90): the upper end included
YRotationsInclusive == [i \in 1..(MaxRotation \div 90 + 1) |-> (i - 1) * 90]

\* range(0, max_rotation, 90)
YRotations == [i \in 1..(MaxRotation \div 90) |-> (i - 1) * 90]

\* range(90, max_rotation, 90) in place of (90, 270)
XRotationsAll == <<90, 180, 270>>

\* (90, 270)
XRotations == <<90, 270>>

\* the test of lines 207 and 220 inverted
AcceptedInverted(path) == path = None

\* `if sliced_path is not None` of lines 207 and 220
Accepted(path) == path # None

\* line 228: the RuntimeError is made with a message and nothing else
ExhaustedErrorArgs ==
    << [type |-> "str",
        value |-> "Failed to slice without warnings after all rotations."] >>

\* lines 213-214 and 225-226, reached only when the attempt was not accepted
Bookkeep(generated, path) ==
    IF path # None THEN Append(generated, path[1]) ELSE generated

\* lines 197-199
ResolveOutputFolder(stl, folder_arg) ==
    Abspath(IF folder_arg = None THEN Dirname(stl) ELSE folder_arg[1])

\* The state in which the search is called: any part, any output folder
\* argument, and an output folder that is empty or holds the gcode of an
\* earlier search of the same part.
Init ==
    /\ pc = "start"
    /\ stl_path \in StlPaths
    /\ output_folder_arg \in OutputFolderArgs
    /\ output_folder_path = None
    /\ rot_idx = 1
    /\ generated_files = <<>>
    /\ sliced_path = None
    /\ \E old \in BOOLEAN :
         disk = IF old
                THEN WriteFile(NoFiles,
                               OutputPath(stl_path,
                                          ResolveOutputFolder(stl_path, output_folder_arg),
                                          0, "y"),
                               [by |-> 0, gcode |-> GcodeFull])
                ELSE NoFiles
    /\ proc_run = None
    /\ attempts = <<>>
    /\ slicer_cmds = <<>>
    /\ removed = <<>>
    /\ result = None
    /\ error = "none"
    /\ error_args = <<>>
    /\ AnalysisIdle
    /\ TwoIdle /\ ConfigIdle /\ PartsIdle /\ HeatIdle

\* lines 195-201
Start ==
    /\ pc = "start"
    /\ output_folder_path' = Some(ResolveOutputFolder(stl_path, output_folder_arg))
    /\ generated_files' = <<>>
    /\ pc' = "y_loop"
    /\ rot_idx' = 1
    /\ UNCHANGED << stl_path, output_folder_arg, sliced_path, disk, proc_run,
                    attempts, slicer_cmds, removed, result, error, error_args >>
    /\ UNCHANGED << avars, xvars >>

\* One iteration of a rotation loop: the Executor call and what the
\* Controller does with its result.  When the loop is over after this
\* iteration, control goes to after_pc (raising after_error, if any).
TryRotation(axis, rotations, after_pc, after_error) ==
    \E proc \in SearchProcs :
      LET degrees == rotations[rot_idx]
          r == SliceStlNoSupport(stl_path, ConfigPath, output_folder_path[1],
                                 degrees, axis, proc, disk, Len(attempts) + 1)
          del == RemoveAll(r.files, generated_files, <<>>)
          more == rot_idx < Len(rotations)
      IN  /\ proc_run' = Some(proc)
          /\ attempts' = Append(attempts,
                                [axis |-> axis, degrees |-> degrees,
                                 outcome |-> Outcome(proc),
                                 wrote |-> proc.wrote # None])
          /\ slicer_cmds' = Append(slicer_cmds, r.cmd)
          /\ sliced_path' = r.ret
          /\ IF r.exc # "none"
             THEN /\ pc' = "raised"
                  /\ error' = r.exc
                  /\ disk' = r.files
                  /\ UNCHANGED << rot_idx, generated_files, removed, result,
                                  error_args >>
             ELSE IF Accepted(r.ret)
             THEN /\ disk' = del.files
                  /\ removed' = removed \o del.removed
                  /\ pc' = IF del.exc = "none" THEN "returned" ELSE "raised"
                  /\ error' = del.exc
                  /\ result' = IF del.exc = "none" THEN r.ret ELSE None
                  /\ UNCHANGED << rot_idx, generated_files, error_args >>
             ELSE /\ disk' = r.files
                  /\ generated_files' = Bookkeep(generated_files, r.ret)
                  /\ rot_idx' = IF more THEN rot_idx + 1 ELSE 1
                  /\ pc' = IF more THEN pc ELSE after_pc
                  /\ error' = IF more THEN error ELSE after_error
                  /\ error_args' = IF more \/ after_error = "none" THEN error_args
                                    ELSE ExhaustedErrorArgs
                  /\ UNCHANGED << removed, result >>
          /\ UNCHANGED << stl_path, output_folder_arg, output_folder_path >>
          /\ UNCHANGED << avars, xvars >>

\* lines 204-214
YAttempt ==
    /\ pc = "y_loop"
    /\ TryRotation("y", YRotations, "x_loop", "none")

\* lines 217-228
XAttempt ==
    /\ pc = "x_loop"
    /\ TryRotation("x", XRotations, "raised", "RuntimeError")

Next == Start \/ YAttempt \/ XAttempt

\* one search
Spec == Init /\ [][Next]_vars

\* ------------------------------------------------ a single Executor call

\* the (axis, degrees) arguments a single call is checked with
ExecAxes == { "x", "y", "z" }

ExecDegrees == { 0, 90, 270, 45, 360 }

\* Before a call of slice_stl_no_support from outside the search: the output
\* folder is empty or holds an older gcode of the part.
InitExec ==
    /\ pc = "exec_call"
    /\ stl_path \in StlPaths
    /\ output_folder_arg = Some(Cwd \o <<"out">>)
    /\ output_folder_path = output_folder_arg
    /\ rot_idx = 1
    /\ generated_files = <<>>
    /\ sliced_path = None
    /\ \E old \in BOOLEAN :
         disk = IF old
                THEN WriteFile(NoFiles,
                               OutputPath(stl_path, output_folder_path[1], 0, "y"),
                               [by |-> 0, gcode |-> GcodeFull])
                ELSE NoFiles
    /\ proc_run = None
    /\ attempts = <<>>
    /\ slicer_cmds = <<>>
    /\ removed = <<>>
    /\ result = None
    /\ error = "none"
    /\ error_args = <<>>
    /\ AnalysisIdle
    /\ TwoIdle /\ ConfigIdle /\ PartsIdle /\ HeatIdle

\* slice_stl_no_support called once, with any arguments, against any slicer run
ExecCall ==
    /\ pc = "exec_call"
    /\ \E proc \in Procs, axis \in ExecAxes, degrees \in ExecDegrees :
         LET r == SliceStlNoSupport(stl_path, ConfigPath, output_folder_path[1],
                                    degrees, axis, proc, disk, 1)
         IN  /\ proc_run' = Some(proc)
             /\ attempts' = Append(attempts,
                                   [axis |-> axis, degrees |-> degrees,
                                    outcome |-> Outcome(proc),
                                 wrote |-> proc.wrote # None])
             /\ slicer_cmds' = Append(slicer_cmds, r.cmd)
             /\ sliced_path' = r.ret
             /\ error' = r.exc
             /\ disk' = r.files
    /\ pc' = "exec_done"
    /\ UNCHANGED << stl_path, output_folder_arg, output_folder_path, rot_idx,
                    generated_files, removed, result, error_args >>
    /\ UNCHANGED << avars, xvars >>

NextExec == ExecCall

SpecExec == InitExec /\ [][NextExec]_vars

\* ---------------------------------------------- a call of the gcode analysis

\* no search and no Executor call
SearchIdle ==
    /\ pc = "idle"
    /\ stl_path = [dir |-> <<"/", "parts">>, stem |-> "part", ext |-> "stl"]
    /\ output_folder_arg = None
    /\ output_folder_path = None
    /\ rot_idx = 1
    /\ generated_files = <<>>
    /\ sliced_path = None
    /\ disk = NoFiles
    /\ proc_run = None
    /\ attempts = <<>>
    /\ slicer_cmds = <<>>
    /\ removed = <<>>
    /\ result = None
    /\ error = "none"
    /\ error_args = <<>>

\* Before a call of the analysis on any gcode file of at most MaxLines lines
InitGcode ==
    /\ SearchIdle
    /\ apc = "call"
    /\ gcode \in Gcodes
    /\ entry = "none"
    /\ profile = None
    /\ nozzle_diameter = None
    /\ scan = [i |-> 1] @@ VolumeScanStart
    /\ support_volume = None
    /\ non_support_volume = None
    /\ fraction = None
    /\ aerror = "none"
    /\ first = None
    /\ TwoIdle /\ ConfigIdle /\ PartsIdle /\ HeatIdle

\* the loop locals kept between calls (as module-level variables would be)
\* instead of being set at the head of the volume function
CallFractionKeepLocals ==
    /\ apc = "call"
    /\ entry \in { "none", "fraction" }
    /\ entry' = "fraction"
    /\ LET p == EstimateNozzleAndLayerHeight(gcode)
       IN  /\ profile' = Some(p)
           /\ aerror' = p.exc
           /\ apc' = IF p.exc # "none" THEN "raised" ELSE "support_loop"
           /\ nozzle_diameter' = IF p.exc # "none" THEN None ELSE Some(p.nozzle)
    /\ scan' = [scan EXCEPT !.i = 1]
    /\ UNCHANGED << gcode, support_volume, non_support_volume, fraction >>
    /\ UNCHANGED << svars, first, xvars >>

\* estimate_fraction_of_support_material is called: lines 159-160, and the
\* call of estimate_support_volume up to its loop
CallFraction ==
    /\ apc = "call"
    /\ entry \in { "none", "fraction" }
    /\ entry' = "fraction"
    /\ LET p == EstimateNozzleAndLayerHeight(gcode)
       IN  /\ profile' = Some(p)
           /\ aerror' = p.exc
           /\ apc' = IF p.exc # "none" THEN "raised" ELSE "support_loop"
           /\ nozzle_diameter' = IF p.exc # "none" THEN None ELSE Some(p.nozzle)
    /\ scan' = [i |-> 1] @@ VolumeScanStart
    /\ UNCHANGED << gcode, support_volume, non_support_volume, fraction >>
    /\ UNCHANGED << svars, first, xvars >>

\* estimate_support_volume is called with a nozzle diameter (and
\* estiamte_non_support_volume after it): up to its loop
CallVolumes ==
    /\ apc = "call"
    /\ entry \in { "none", "volumes" }
    /\ entry' = "volumes"
    /\ \E d \in NozzleArgs : nozzle_diameter' = Some(d)
    /\ apc' = "support_loop"
    /\ scan' = [i |-> 1] @@ VolumeScanStart
    /\ UNCHANGED << gcode, profile, support_volume, non_support_volume, fraction,
                    aerror >>
    /\ UNCHANGED << svars, first, xvars >>

\* one line of the running volume loop
ScanLine(want_support) ==
    /\ scan.i <= Len(gcode)
    /\ scan' = [i |-> scan.i + 1]
               @@ VolumeStep(gcode[scan.i], nozzle_diameter[1], want_support,
                             [is_support |-> scan.is_support,
                              last_extrusion |-> scan.last_extrusion,
                              added |-> scan.added, volume |-> scan.volume])
    /\ UNCHANGED << apc, gcode, entry, profile, nozzle_diameter, support_volume,
                    non_support_volume, fraction, aerror >>
    /\ UNCHANGED << svars, first, xvars >>

\* lines 79-98
SupportLine == apc = "support_loop" /\ ScanLine(TRUE)

\* line 100, and the call of estiamte_non_support_volume up to its loop
SupportReturn ==
    /\ apc = "support_loop"
    /\ scan.i > Len(gcode)
    /\ support_volume' = Some(scan.volume)
    /\ apc' = "non_support_loop"
    /\ scan' = [i |-> 1] @@ VolumeScanStart
    /\ UNCHANGED << gcode, entry, profile, nozzle_diameter, non_support_volume,
                    fraction, aerror >>
    /\ UNCHANGED << svars, first, xvars >>

\* lines 125-144
NonSupportLine == apc = "non_support_loop" /\ ScanLine(FALSE)

\* line 146
NonSupportReturn ==
    /\ apc = "non_support_loop"
    /\ scan.i > Len(gcode)
    /\ non_support_volume' = Some(scan.volume)
    /\ apc' = IF entry = "fraction" THEN "sum" ELSE "done"
    /\ UNCHANGED << gcode, entry, profile, nozzle_diameter, scan, support_volume,
                    fraction, aerror >>
    /\ UNCHANGED << svars, first, xvars >>

\* lines 166-177
Sum ==
    /\ apc = "sum"
    /\ LET f == FractionResult(support_volume[1], non_support_volume[1])
       IN  /\ aerror' = f.exc
           /\ apc' = IF f.exc # "none" THEN "raised" ELSE "done"
           /\ fraction' = IF f.exc # "none" THEN None
                          ELSE Some([num |-> f.num, den |-> f.den])
    /\ UNCHANGED << gcode, entry, profile, nozzle_diameter, scan, support_volume,
                    non_support_volume >>
    /\ UNCHANGED << svars, first, xvars >>

\* The call has ended and the caller makes the same call again on the same
\* file: how the first call ended is logged, the caller's variables are unbound
\* again, and apart from the file nothing of the first call is handed to the
\* second (no function of the module writes a global or a file).
Repeat ==
    /\ apc \in { "done", "raised" }
    /\ first = None
    /\ first' = Some([apc |-> apc, profile |-> profile,
                      support_volume |-> support_volume,
                      non_support_volume |-> non_support_volume,
                      fraction |-> fraction, aerror |-> aerror])
    /\ apc' = "call"
    /\ profile' = None
    /\ nozzle_diameter' = None
    /\ support_volume' = None
    /\ non_support_volume' = None
    /\ fraction' = None
    /\ aerror' = "none"
    /\ UNCHANGED << gcode, entry, scan >>
    /\ UNCHANGED << svars, xvars >>

NextGcode ==
    \/ Repeat
    \/ CallFraction
    \/ CallVolumes
    \/ SupportLine
    \/ SupportReturn
    \/ NonSupportLine
    \/ NonSupportReturn
    \/ Sum

SpecGcode == InitGcode /\ [][NextGcode]_vars

\* ------------------------- the fraction function in rounded arithmetic

\* Before a call of estimate_fraction_of_support_material on a file with
\* both profile comments
InitRounded ==
    /\ SearchIdle
    /\ apc = "call"
    /\ gcode \in RoundedGcodes
    /\ entry = "none"
    /\ profile = None
    /\ nozzle_diameter = None
    /\ scan = [i |-> 1] @@ VolumeScanStart
    /\ support_volume = None
    /\ non_support_volume = None
    /\ fraction = None
    /\ aerror = "none"
    /\ first = None
    /\ TwoIdle /\ ConfigIdle /\ PartsIdle /\ HeatIdle

\* one line of the running volume loop
RoundedScanLine(want_support) ==
    /\ scan.i <= Len(gcode)
    /\ scan' = [i |-> scan.i + 1]
               @@ RoundedVolumeStep(gcode[scan.i], nozzle_diameter[1], want_support,
                                    [is_support |-> scan.is_support,
                                     last_extrusion |-> scan.last_extrusion,
                                     added |-> scan.added, volume |-> scan.volume])
    /\ UNCHANGED << apc, gcode, entry, profile, nozzle_diameter, support_volume,
                    non_support_volume, fraction, aerror >>
    /\ UNCHANGED << svars, first, xvars >>

\* lines 79-98
RoundedSupportLine == apc = "support_loop" /\ RoundedScanLine(TRUE)

\* lines 125-144
RoundedNonSupportLine == apc = "non_support_loop" /\ RoundedScanLine(FALSE)

\* lines 166-177
RoundedSum ==
    /\ apc = "sum"
    /\ LET f == RoundedFractionResult(support_volume[1], non_support_volume[1])
       IN  /\ aerror' = f.exc
           /\ apc' = IF f.exc # "none" THEN "raised" ELSE "done"
           /\ fraction' = IF f.exc # "none" THEN None
                          ELSE Some([num |-> f.num, den |-> f.den])
    /\ UNCHANGED << gcode, entry, profile, nozzle_diameter, scan, support_volume,
                    non_support_volume >>
    /\ UNCHANGED << svars, first, xvars >>

NextRounded ==
    \/ CallFraction
    \/ RoundedSupportLine
    \/ SupportReturn
    \/ RoundedNonSupportLine
    \/ NonSupportReturn
    \/ RoundedSum

SpecRounded == InitRounded /\ [][NextRounded]_vars

\* ------------------------------------- two instances searching at once

\* the instances of the program
Instances == { 1, 2 }

\* the slicer runs of these searches: one that cannot be launched, one that
\* fails, one Clean and one Warned with a warning text the Executor can read
TwoProcs ==
    { [launched |-> FALSE, returncode |-> 1, stdout |-> <<>>, wrote |-> None],
      [launched |-> TRUE, returncode |-> 1, stdout |-> <<"a", "\n">>, wrote |-> None],
      [launched |-> TRUE, returncode |-> 0, stdout |-> <<"a", "\n">>,
       wrote |-> Some(GcodeFull)],
      [launched |-> TRUE, returncode |-> 0,
       stdout |-> <<"a", "\n", Marker, ":", "\n", "a", "\n">>,
       wrote |-> Some(GcodeFull)] }

\* the rotations of a loop of the search
RotationsOf(axis) == IF axis = "y" THEN YRotations ELSE XRotations

\* Both instances are started with the same part and the same output folder
\* argument; the folder holds no gcode yet.
InitTwo ==
    /\ pc = "two"
    /\ stl_path \in StlPaths
    /\ output_folder_arg \in OutputFolderArgs
    /\ output_folder_path = None
    /\ rot_idx = 1
    /\ generated_files = <<>>
    /\ sliced_path = None
    /\ disk = NoFiles
    /\ proc_run = None
    /\ attempts = <<>>
    /\ slicer_cmds = <<>>
    /\ removed = <<>>
    /\ result = None
    /\ error = "none"
    /\ error_args = <<>>
    /\ orch = [i \in Instances |->
                 [pc |-> "start", output_folder_path |-> None, axis |-> "y",
                  rot_idx |-> 1, generated_files |-> <<>>, proc |-> None,
                  output |-> None, n |-> 0, result |-> None, artifact |-> None,
                  error |-> "none"]]
    /\ AnalysisIdle
    /\ ConfigIdle /\ PartsIdle /\ HeatIdle

\* lines 195-201, in instance i
TwoStart(i) ==
    /\ orch[i].pc = "start"
    /\ orch' = [orch EXCEPT
                  ![i].output_folder_path =
                      Some(ResolveOutputFolder(stl_path, output_folder_arg)),
                  ![i].generated_files = <<>>,
                  ![i].pc = "slicer"]
    /\ UNCHANGED << svars, avars, cvars, fvars, hvars >>

\* The slicer process of instance i's next attempt runs to its end
\* (subprocess.run, lines 267-277, is waiting for it): it writes its gcode
\* to the path of the command.  The file keeps who wrote it.
SlicerRun(i) ==
    /\ orch[i].pc = "slicer"
    /\ \E proc \in TwoProcs :
         LET o == orch[i]
             output_path == OutputPath(stl_path, o.output_folder_path[1],
                                       RotationsOf(o.axis)[o.rot_idx], o.axis)
         IN  /\ disk' = IF proc.launched /\ proc.wrote # None
                         THEN WriteFile(disk, output_path,
                                        [by |-> [instance |-> i, n |-> o.n + 1,
                                                 outcome |-> Outcome(proc)],
                                         gcode |-> proc.wrote[1]])
                         ELSE disk
             /\ orch' = [orch EXCEPT ![i].proc = Some(proc),
                                     ![i].output = Some(output_path),
                                     ![i].n = o.n + 1,
                                     ![i].pc = "handle"]
    /\ UNCHANGED << pc, stl_path, output_folder_arg, output_folder_path, rot_idx,
                    generated_files, sliced_path, proc_run, attempts, slicer_cmds,
                    removed, result, error, error_args >>
    /\ UNCHANGED << avars, cvars, fvars, hvars >>

\* subprocess.run returns in instance i: the rest of slice_stl_no_support
\* (lines 279-301, on the files as they are now) and what the search does
\* with its result (lines 207-214, 220-228)
ExecutorReturn(i) ==
    /\ orch[i].pc = "handle"
    /\ LET o == orch[i]
           rotations == RotationsOf(o.axis)
           r == SliceStlNoSupport(stl_path, ConfigPath, o.output_folder_path[1],
                                  rotations[o.rot_idx], o.axis,
                                  [o.proc[1] EXCEPT !.wrote = None], disk, o.n)
           del == RemoveAll(disk, o.generated_files, <<>>)
           more == o.rot_idx < Len(rotations)
       IN  IF r.exc # "none"
           THEN /\ orch' = [orch EXCEPT ![i].pc = "raised", ![i].error = r.exc]
                /\ disk' = disk
           ELSE IF Accepted(r.ret)
           THEN /\ disk' = del.files
                /\ orch' = [orch EXCEPT
                              ![i].pc = IF del.exc = "none" THEN "returned"
                                        ELSE "raised",
                              ![i].error = del.exc,
                              ![i].result = IF del.exc = "none" THEN r.ret ELSE None,
                              ![i].artifact =
                                  IF del.exc = "none" /\ r.ret[1] \in DOMAIN del.files
                                  THEN Some(del.files[r.ret[1]].by) ELSE None]
           ELSE /\ disk' = disk
                /\ orch' = [orch EXCEPT
                              ![i].generated_files = Bookkeep(o.generated_files, r.ret),
                              ![i].rot_idx = IF more THEN o.rot_idx + 1 ELSE 1,
                              ![i].axis = IF more THEN o.axis ELSE "x",
                              ![i].pc = IF more \/ o.axis = "y" THEN "slicer"
                                        ELSE "raised",
                              ![i].error = IF more \/ o.axis = "y" THEN "none"
                                           ELSE "RuntimeError"]
    /\ UNCHANGED << pc, stl_path, output_folder_arg, output_folder_path, rot_idx,
                    generated_files, sliced_path, proc_run, attempts, slicer_cmds,
                    removed, result, error, error_args >>
    /\ UNCHANGED << avars, cvars, fvars, hvars >>

NextTwo ==
    \E i \in Instances :
        \/ TwoStart(i)
        \/ SlicerRun(i)
        \/ ExecutorReturn(i)

SpecTwo == InitTwo /\ [][NextTwo]_vars

\* ------------------------------------------------------------- config.json

Quote == "\""

Backslash == "\\"

\* Strings are sequences of characters.  The parameters and values the
\* configuration functions are called with: plain ones, and ones with the
\* characters JSON escapes.
ConfigKeys == { <<"u">>, <<Backslash, Quote>> }

ConfigValues ==
    { <<>>, <<"u">>, <<Quote>>, <<Backslash>>, <<Backslash, Quote>>,
      <<Quote, "u", Backslash>> }

\* a string written as it is, without escapes
JsonEscapeNothing(str) == str

RECURSIVE JsonEscape(_)
\* json.dump of a str: the text between the enclosing quotes
JsonEscape(str) ==
    IF str = <<>> THEN <<>>
    ELSE (IF Head(str) \in { Quote, Backslash } THEN << Backslash, Head(str) >>
          ELSE << Head(str) >>) \o JsonEscape(Tail(str))

RECURSIVE JsonUnescape(_)
\* json.load of the text between two quotes: Some(the str), or None for a
\* text that is no JSON string (a bare quote, a backslash without " or \
\* behind it)
JsonUnescape(text) ==
    IF text = <<>> THEN Some(<<>>)
    ELSE IF Head(text) = Quote THEN None
    ELSE IF Head(text) = Backslash
    THEN IF Len(text) < 2 \/ text[2] \notin { Quote, Backslash } THEN None
         ELSE LET rest == JsonUnescape(SubSeq(text, 3, Len(text)))
              IN  IF rest = None THEN None ELSE Some(<< text[2] >> \o rest[1])
    ELSE LET rest == JsonUnescape(Tail(text))
         IN  IF rest = None THEN None ELSE Some(<< Head(text) >> \o rest[1])

\* json.dump(data, f): the object with every name and value escaped
JsonDump(data) ==
    [n \in { JsonEscape(k) : k \in DOMAIN data } |->
        JsonEscape(data[CHOOSE k \in DOMAIN data : JsonEscape(k) = n])]

\* json.load(f): the dict of the object in the file, or JSONDecodeError
JsonLoad(file) ==
    IF \E n \in DOMAIN file : JsonUnescape(n) = None \/ JsonUnescape(file[n]) = None
    THEN [exc |-> "JSONDecodeError", data |-> << >>]
    ELSE [exc |-> "none",
          data |-> [k \in { JsonUnescape(n)[1] : n \in DOMAIN file } |->
                      JsonUnescape(file[CHOOSE n \in DOMAIN file :
                                            JsonUnescape(n)[1] = k])[1]]]

\* the default of data.get on line 53
NotFound(parameter) ==
    << "Parameter '" >> \o parameter \o << "' not found in the config file." >>

\* config_template.json as shipped: the keys without values
TemplateFile == JsonDump((<<"u">> :> <<>>))

\* Before the calls: no config.json, an empty object, or a filled one
InitConfig ==
    /\ SearchIdle
    /\ AnalysisIdle
    /\ TwoIdle /\ PartsIdle /\ HeatIdle
    /\ config_file \in { None, Some(JsonDump(<< >>)),
                         Some(JsonDump((<<"u">> :> <<"u", "u">>))) }
    /\ cfg_written = << >>
    /\ cfg_last = None

\* set_config_parameter(parameter, value), lines 65-72
SetConfigParameter ==
    \E parameter \in ConfigKeys, value \in ConfigValues :
        LET loaded == JsonLoad(config_file[1])
            data == (parameter :> value) @@ loaded.data
        IN  IF config_file = None
            THEN /\ cfg_last' = Some([op |-> "set", parameter |-> parameter,
                                      ret |-> None, exc |-> "FileNotFoundError"])
                 /\ UNCHANGED << config_file, cfg_written >>
            ELSE IF loaded.exc # "none"
            THEN /\ cfg_last' = Some([op |-> "set", parameter |-> parameter,
                                      ret |-> None, exc |-> loaded.exc])
                 /\ UNCHANGED << config_file, cfg_written >>
            ELSE /\ config_file' = Some(JsonDump(data))
                 /\ cfg_written' = (parameter :> value) @@ cfg_written
                 /\ cfg_last' = Some([op |-> "set", parameter |-> parameter,
                                      ret |-> None, exc |-> "none"])

\* get_config_parameter(parameter), lines 41-55; config_template.json is
\* there or not
GetConfigParameter ==
    \E parameter \in ConfigKeys, template \in { None, Some(TemplateFile) } :
        LET file == IF config_file = None THEN template ELSE config_file
            loaded == JsonLoad(file[1])
        IN  /\ config_file' = file
            /\ cfg_last' =
                 Some([op |-> "get", parameter |-> parameter,
                       ret |-> IF file = None \/ loaded.exc # "none" THEN None
                               ELSE IF parameter \in DOMAIN loaded.data
                               THEN Some(loaded.data[parameter])
                               ELSE Some(NotFound(parameter)),
                       exc |-> IF file = None THEN "FileNotFoundError"
                               ELSE loaded.exc])
            /\ UNCHANGED cfg_written

NextConfig ==
    \/ SetConfigParameter /\ UNCHANGED << svars, avars, tvars, fvars, hvars >>
    \/ GetConfigParameter /\ UNCHANGED << svars, avars, tvars, fvars, hvars >>

SpecConfig == InitConfig /\ [][NextConfig]_vars

\* ------------------------------------------------ parts_data_from_file_dict

\* A file dictionary is a dict, kept as the sequence of its items in
\* iteration order, each [key, value]; a value is [tag, files, sub], with
\* tag "list" (files: the paths), "dict" (sub: the items of the
\* subfolder's dictionary) or "str" (neither a dict nor a list).
Entry(key, value) == [key |-> key, value |-> value]

ListValue(files) == [tag |-> "list", files |-> files, sub |-> <<>>]

DictValue(items) == [tag |-> "dict", files |-> <<>>, sub |-> items]

StrValue == [tag |-> "str", files |-> <<>>, sub |-> <<>>]

FilePaths ==
    { [dir |-> <<"/", "path", "to">>, name |-> "part1.stl"],
      [dir |-> <<"/", "path", "to">>, name |-> "part2.stl"] }

\* the values that are no dictionaries
FlatValues ==
    { ListValue(l) : l \in UNION { [1..n -> FilePaths] : n \in 0..MaxFiles } }
    \cup { StrValue }

\* the dictionaries of a subfolder with values from V
SubfolderDicts(V) == { <<>> } \cup { << Entry("subfolder", v) >> : v \in V }

\* the values of a folder: flat ones, and subfolders nested once or twice
FolderValues ==
    LET nested == FlatValues \cup { DictValue(d) : d \in SubfolderDicts(FlatValues) }
    IN  FlatValues \cup { DictValue(d) : d \in SubfolderDicts(nested) }

\* the file dictionaries the function is called with
FileDicts ==
    { <<>> }
    \cup { << Entry(k, v) >> : k \in { "folder1", "folder2" }, v \in FolderValues }
    \cup { << Entry("folder1", v), Entry("folder2", w) >> : v, w \in FolderValues }
    \cup { << Entry("folder2", v), Entry("folder1", w) >> : v, w \in FolderValues }

\* the dataclasses of the repository with the fields part_name, quantity,
\* file_path, slice_warnings, gcode_path
BoMLineItem == "auto_slicer.ui.BoMLineItem"

UtilSTLFile == "auto_slicer.util.STLFile"

DefinitionsSTLFile == "auto_slicer.definitions.STLFile"

\* cls(os.path.basename(file_path), 1, file_path)
PartItem(cls, file_path) ==
    [cls |-> cls, part_name |-> file_path.name, quantity |-> 1,
     file_path |-> file_path, slice_warnings |-> None, gcode_path |-> None]

RECURSIVE PartsDataFromFileDict(_, _)
\* parts_data_from_file_dict(file_dict), building its items with cls: exc is
\* the exception that leaves it, items the list returned
PartsDataFromFileDict(items, cls) ==
    IF items = <<>> THEN [exc |-> "none", items |-> <<>>]
    ELSE LET value == Head(items).value
             here == IF value.tag = "dict" THEN PartsDataFromFileDict(value.sub, cls)
                     ELSE IF value.tag = "list"
                     THEN [exc |-> "none",
                           items |-> [k \in 1..Len(value.files) |->
                                         PartItem(cls, value.files[k])]]
                     ELSE [exc |-> "ValueError", items |-> <<>>]
             rest == PartsDataFromFileDict(Tail(items), cls)
         IN  IF here.exc # "none" THEN [exc |-> here.exc, items |-> <<>>]
             ELSE IF rest.exc # "none" THEN [exc |-> rest.exc, items |-> <<>>]
             ELSE [exc |-> "none", items |-> here.items \o rest.items]

InitParts ==
    /\ SearchIdle
    /\ AnalysisIdle
    /\ TwoIdle /\ ConfigIdle /\ HeatIdle
    /\ file_dict \in { Some(d) : d \in FileDicts }
    /\ parts_data = None

\* auto_slicer.ui.parts_data_from_file_dict(file_dict)
CallUi ==
    /\ parts_data = None
    /\ parts_data' = Some(PartsDataFromFileDict(file_dict[1], BoMLineItem))
    /\ UNCHANGED file_dict
    /\ UNCHANGED << svars, avars, tvars, cvars, hvars >>

\* auto_slicer.util.parts_data_from_file_dict(file_dict)
CallUtil ==
    /\ parts_data = None
    /\ parts_data' = Some(PartsDataFromFileDict(file_dict[1], UtilSTLFile))
    /\ UNCHANGED file_dict
    /\ UNCHANGED << svars, avars, tvars, cvars, hvars >>

NextParts == CallUi \/ CallUtil

SpecParts == InitParts /\ [][NextParts]_vars

\* ----------------------------------------------------------------- pre_heat

DefaultToolTarget == 150

DefaultBedTarget == 45

ToolTargets == { DefaultToolTarget, 200 }

BedTargets == { DefaultBedTarget, 60 }

\* an operation on the OctoRest client, with the printer's state when the
\* printer served it
Request(op, arg) == [op |-> op, arg |-> arg, printing |-> printing]

MayHeatInverted(active) == active

\* if not await is_print_job_active()
MayHeat(active) == ~active

\* the printer is idle or printing, the module has a client or none, and
\* pre_heat has not been called
InitHeat ==
    /\ SearchIdle
    /\ AnalysisIdle
    /\ TwoIdle /\ ConfigIdle /\ PartsIdle
    /\ printing \in BOOLEAN
    /\ client \in { "None", "OctoRest" }
    /\ hpc = "idle"
    /\ reported = None
    /\ requests = <<>>
    /\ herror = "none"
    /\ heat_call = None

\* a print job starts or ends on the printer: the printer serves other
\* clients and its own interface as well
PrinterChanges ==
    /\ hpc \notin { "done", "raised" }
    /\ printing' = ~printing
    /\ UNCHANGED << client, hpc, reported, requests, herror, heat_call >>
    /\ UNCHANGED << svars, avars, tvars, cvars, fvars >>

\* pre_heat(tool_target, bed_target) up to "if client is None"
PreHeat ==
    /\ hpc = "idle"
    /\ \E tool_target \in ToolTargets, bed_target \in BedTargets :
          heat_call' = Some([tool_target |-> tool_target, bed_target |-> bed_target])
    /\ hpc' = IF client = "None" THEN "init" ELSE "check"
    /\ UNCHANGED << printing, client, reported, requests, herror >>
    /\ UNCHANGED << svars, avars, tvars, cvars, fvars >>

\* await initialize_client(): the client is made, or the exception of the
\* OctoRest constructor is raised again
InitializeClient ==
    /\ hpc = "init"
    /\ \/ /\ client' = "OctoRest"
          /\ requests' = Append(requests, Request("OctoRest", None))
          /\ hpc' = "check"
          /\ UNCHANGED herror
       \/ /\ herror' = "Exception"
          /\ hpc' = "raised"
          /\ UNCHANGED << client, requests >>
    /\ UNCHANGED << printing, reported, heat_call >>
    /\ UNCHANGED << svars, avars, tvars, cvars, fvars >>

\* await is_print_job_active(): client.printer() returns the printer's flag
\* of that moment, or the request fails
IsPrintJobActive ==
    /\ hpc = "check"
    /\ \/ /\ reported' = Some(printing)
          /\ requests' = Append(requests, Request("printer", None))
          /\ hpc' = "branch"
          /\ UNCHANGED herror
       \/ /\ herror' = "RequestException"
          /\ hpc' = "raised"
          /\ UNCHANGED << reported, requests >>
    /\ UNCHANGED << printing, client, heat_call >>
    /\ UNCHANGED << svars, avars, tvars, cvars, fvars >>

\* the else branch: the error is logged and RuntimeError raised
Refuse ==
    /\ hpc = "branch"
    /\ ~MayHeat(reported[1])
    /\ herror' = "RuntimeError"
    /\ hpc' = "raised"
    /\ UNCHANGED << printing, client, reported, requests, heat_call >>
    /\ UNCHANGED << svars, avars, tvars, cvars, fvars >>

\* client.tool_target(tool_target): sent, or the request fails
ToolTarget ==
    /\ hpc = "branch"
    /\ MayHeat(reported[1])
    /\ \/ /\ requests' = Append(requests,
                                Request("tool_target", Some(heat_call[1].tool_target)))
          /\ hpc' = "bed"
          /\ UNCHANGED herror
       \/ /\ herror' = "RequestException"
          /\ hpc' = "raised"
          /\ UNCHANGED requests
    /\ UNCHANGED << printing, client, reported, heat_call >>
    /\ UNCHANGED << svars, avars, tvars, cvars, fvars >>

\* client.bed_target(bed_target): sent, or the request fails
BedTarget ==
    /\ hpc = "bed"
    /\ \/ /\ requests' = Append(requests,
                                Request("bed_target", Some(heat_call[1].bed_target)))
          /\ hpc' = "done"
          /\ UNCHANGED herror
       \/ /\ herror' = "RequestException"
          /\ hpc' = "raised"
          /\ UNCHANGED requests
    /\ UNCHANGED << printing, client, reported, heat_call >>
    /\ UNCHANGED << svars, avars, tvars, cvars, fvars >>

NextHeat ==
    \/ PrinterChanges
    \/ PreHeat
    \/ InitializeClient
    \/ IsPrintJobActive
    \/ Refuse
    \/ ToolTarget
    \/ BedTarget

SpecHeat == InitHeat /\ [][NextHeat]_vars

\* ------------------------------------------------------------- properties

\* the search order of the specification
FixedOrder ==
    << [axis |-> "y", degrees |-> 0], [axis |-> "y", degrees |-> 90],
       [axis |-> "y", degrees |-> 180], [axis |-> "y", degrees |-> 270],
       [axis |-> "x", degrees |-> 90], [axis |-> "x", degrees |-> 270] >>

Orientation(a) == [axis |-> a.axis, degrees |-> a.degrees]

\* the search has ended, by returning or raising
Ended == pc \in { "returned", "raised" }

\* the orientation the running loop tries next
NextOrientation ==
    IF pc = "y_loop" THEN Some([axis |-> "y", degrees |-> YRotations[rot_idx]])
    ELSE IF pc = "x_loop" THEN Some([axis |-> "x", degrees |-> XRotations[rot_idx]])
    ELSE None

\* C1: the Executor calls of a search are always a prefix of Y/0, Y/90,
\* Y/180, Y/270, X/90, X/270, and an X-axis call is made only after all four
\* Y-axis calls were made and none of them was Clean.
ClaimC1 ==
    /\ Len(attempts) <= Len(FixedOrder)
    /\ \A i \in 1..Len(attempts) :
         /\ Orientation(attempts[i]) = FixedOrder[i]
         /\ attempts[i].axis = "x" =>
              /\ i > 4
              /\ \A j \in 1..4 : attempts[j].axis = "y" /\ attempts[j].outcome # "Clean"

\* all six orientations were tried, the last one Clean
WitnessC1 ==
    /\ Len(attempts) = 6
    /\ attempts[6].outcome = "Clean"
    /\ pc = "returned"

\* C2: a Clean attempt in the log is the last attempt made: the search has
\* returned, after exactly as many slicer invocations as its position, the
\* path that attempt asked the slicer to write.
ClaimC2 ==
    \A k \in 1..Len(attempts) :
        attempts[k].outcome = "Clean" =>
            /\ k = Len(attempts)
            /\ pc = "returned"
            /\ Len(slicer_cmds) = k
            /\ result = Some(slicer_cmds[k].output)
            /\ error = "none"

\* Clean only at Y/180: three invocations
WitnessC2 ==
    /\ pc = "returned"
    /\ Len(attempts) = 3
    /\ Orientation(attempts[3]) = [axis |-> "y", degrees |-> 180]
    /\ attempts[3].outcome = "Clean"

\* C3 (as claimed): a search that has ended with every attempted orientation
\* Warned or Failed has made six Executor calls and raised the
\* exhausted-search error, returning no path.
ClaimC3 ==
    (Ended /\ \A i \in 1..Len(attempts) : attempts[i].outcome \in { "Warned", "Failed" })
        => /\ pc = "raised"
           /\ error = "RuntimeError"
           /\ Len(attempts) = 6
           /\ result = None

\* C4 (as claimed): when the search raises the exhausted-search error after
\* six Warned attempts that each wrote a gcode file, no file written by an
\* attempt of the search is on disk.
ClaimC4 ==
    (/\ pc = "raised"
     /\ error = "RuntimeError"
     /\ \A i \in 1..Len(attempts) :
           attempts[i].outcome = "Warned" /\ attempts[i].wrote)
        => \A p \in DOMAIN disk : disk[p].by = 0

\* C5 (as claimed): when the search returns at attempt k and every earlier
\* attempt wrote a gcode file, the Controller has made k-1 deletions.
ClaimC5 ==
    (/\ pc = "returned"
     /\ \A i \in 1..(Len(attempts) - 1) : attempts[i].wrote)
        => Len(removed) = Len(attempts) - 1

\* C6: when the search has returned a path, the file at that path is the only
\* gcode on disk, and it is the file the last attempt, a Clean one, wrote.
ClaimC6 ==
    pc = "returned" =>
        /\ result # None
        /\ DOMAIN disk = { result[1] }
        /\ disk[result[1]].by = Len(attempts)
        /\ attempts[Len(attempts)].outcome = "Clean"
        /\ Some(disk[result[1]].gcode) = proc_run[1].wrote

\* returned at the third attempt, both earlier attempts having written a file
WitnessC6 ==
    /\ pc = "returned"
    /\ Len(attempts) = 3
    /\ attempts[1].wrote
    /\ attempts[2].wrote

\* C7: a returned path comes from a slicer run with exit status zero and
\* without the marker in its output, never from a Warned run.
ClaimC7 ==
    result # None =>
        /\ proc_run[1].launched
        /\ proc_run[1].returncode = 0
        /\ ~Contains(proc_run[1].stdout, <<Marker>>)
        /\ attempts[Len(attempts)].outcome = "Clean"
        /\ result = sliced_path

\* a path is returned after a Warned attempt whose gcode could be analysed
WitnessC7 ==
    /\ result # None
    /\ Len(attempts) >= 2
    /\ attempts[1].outcome = "Warned"

\* C8: one Executor call returns the output path exactly when the slicer ran,
\* exited with status zero and printed no marker; it then has made exactly
\* one slicer invocation, for that path.
ClaimC8 ==
    pc = "exec_done" =>
        /\ (sliced_path # None) <=> IsClean(proc_run[1])
        /\ sliced_path # None =>
             /\ error = "none"
             /\ Len(slicer_cmds) = 1
             /\ sliced_path = Some(slicer_cmds[1].output)

\* a call that returned a path
WitnessC8 == pc = "exec_done" /\ sliced_path # None

\* C9 (as claimed): an Executor call whose slicer run is Warned returns
\* "not accepted" and raises nothing.
ClaimC9 ==
    (pc = "exec_done" /\ Outcome(proc_run[1]) = "Warned")
        => (sliced_path = None /\ error = "none")

\* C10: after an attempt whose slicer run ended with a non-zero exit status
\* the Executor has returned None without raising, and the Controller is
\* about to try the next orientation of the order (after the sixth, it
\* raises the exhausted-search error).
ClaimC10 ==
    (/\ pc \in { "y_loop", "x_loop", "returned", "raised" }
     /\ proc_run # None
     /\ proc_run[1].launched
     /\ proc_run[1].returncode # 0)
        => /\ sliced_path = None
           /\ result = None
           /\ IF Len(attempts) < Len(FixedOrder)
              THEN /\ error = "none"
                   /\ NextOrientation = Some(FixedOrder[Len(attempts) + 1])
              ELSE pc = "raised" /\ error = "RuntimeError"

\* the first attempt ended with a non-zero exit status, the second was made
WitnessC10 ==
    /\ Len(attempts) >= 2
    /\ attempts[1].outcome = "Failed"

\* the state after an attempt that the Controller took as "not accepted":
\* nothing returned, and the next orientation of the order is about to be
\* tried (after the sixth, the exhausted-search error is raised)
SearchGoesOn ==
    /\ sliced_path = None
    /\ result = None
    /\ IF Len(attempts) < Len(FixedOrder)
       THEN /\ error = "none"
            /\ NextOrientation = Some(FixedOrder[Len(attempts) + 1])
       ELSE pc = "raised" /\ error = "RuntimeError"

\* an attempt of the search has been made
Attempted == pc \in { "y_loop", "x_loop", "returned", "raised" } /\ proc_run # None

\* C11 (as claimed): after an attempt whose slicer could not be launched, no
\* error has left the Executor or the Controller, and the Controller is about
\* to try the next orientation.
ClaimC11 ==
    (Attempted /\ ~proc_run[1].launched) => SearchGoesOn

\* the warning detail can be cut out of a stdout text: the marker with its
\* colon is there, and a newline follows from the second character behind it
WarningTextFound(stdout) ==
    /\ Index(stdout, MarkerColon, 1) # None
    /\ Index(stdout, <<"\n">>, Index(stdout, MarkerColon, 1)[1] + Len(MarkerColon) + 1) # None

\* C12 (as claimed): after a Warned attempt whose gcode analysis fails (no
\* profile comments, or zero total volume), the attempt counts as not
\* accepted and the search goes on as after any other Warned attempt.
ClaimC12 ==
    (/\ Attempted
     /\ Outcome(proc_run[1]) = "Warned"
     /\ WarningTextFound(proc_run[1].stdout)
     /\ EstimateFractionOfSupportMaterial(proc_run[1].wrote[1]).exc # "none")
        => SearchGoesOn

\* C13 (as claimed): a search that has ended has either returned the path of
\* its first Clean attempt, or raised the exhausted-search error after six
\* attempts.
ClaimC13 ==
    Ended =>
        \/ /\ pc = "returned"
           /\ result # None
           /\ \A i \in 1..Len(attempts) :
                (attempts[i].outcome = "Clean") <=> (i = Len(attempts))
        \/ /\ pc = "raised"
           /\ error = "RuntimeError"
           /\ result = None
           /\ Len(attempts) = Len(FixedOrder)

\* the arguments the specification lets the Executor accept
ValidRotation(axis, degrees) ==
    /\ axis \in { "x", "y" }
    /\ degrees % 90 = 0
    /\ 0 <= degrees /\ degrees < MaxRotation

\* C14 (as claimed): an Executor call with an axis outside {x, y} or degrees
\* that are no multiple of 90 in [0, 360) fails and invokes no slicer.
ClaimC14 ==
    (pc = "exec_done" /\ ~ValidRotation(attempts[1].axis, attempts[1].degrees))
        => (slicer_cmds = <<>> /\ error # "none")

\* C15: every slicer command of a search asks for the output path
\* <output folder>/<stem of the part file>.gcode, whatever the rotation.
ClaimC15 ==
    \A i \in 1..Len(slicer_cmds) :
        slicer_cmds[i].output =
            [dir |-> output_folder_path[1], stem |-> stl_path.stem, ext |-> "gcode"]

\* part.stl, sliced into the folder out with two different rotations: both
\* commands ask for out/part.gcode
WitnessC15 ==
    /\ Len(slicer_cmds) >= 2
    /\ slicer_cmds[1].rotate # slicer_cmds[2].rotate
    /\ stl_path = [dir |-> <<"/", "parts">>, stem |-> "part", ext |-> "stl"]
    /\ slicer_cmds[2].output =
           [dir |-> <<"/", "cwd", "out">>, stem |-> "part", ext |-> "gcode"]
    /\ slicer_cmds[1].output = slicer_cmds[2].output

\* ------------------------------------------- properties of the analysis

\* the positions of the lines of a kind among the first n lines of a file
LinesOfKind(g, kinds, n) == { j \in 1..n : g[j].kind \in kinds }

\* the largest and the smallest element of a non-empty set of numbers
Maximum(S) == CHOOSE x \in S : \A y \in S : y <= x

Minimum(S) == CHOOSE x \in S : \A y \in S : x <= y

\* the line on which both profile values are known: the first line by which a
\* nozzle comment and a layer comment have both been read
ProfileKnownAt(g) ==
    Maximum({ Minimum(LinesOfKind(g, { "nozzle" }, Len(g))),
              Minimum(LinesOfKind(g, { "layer" }, Len(g))) })

\* the value of the last comment of a kind among the first n lines
LastValueOfKind(g, kind, n) == g[Maximum(LinesOfKind(g, { kind }, n))].val

\* C16: estimate_nozzle_and_layer_height, on a file with both comments,
\* returns the values of the nozzle and layer comments read up to the line on
\* which both are known and reads no line behind it; on a file that lacks
\* either comment it raises and returns nothing.
ClaimC16 ==
    profile # None =>
        IF /\ LinesOfKind(gcode, { "nozzle" }, Len(gcode)) # {}
           /\ LinesOfKind(gcode, { "layer" }, Len(gcode)) # {}
        THEN /\ profile[1].exc = "none"
             /\ profile[1].read = ProfileKnownAt(gcode)
             /\ profile[1].nozzle = LastValueOfKind(gcode, "nozzle", ProfileKnownAt(gcode))
             /\ profile[1].layer = LastValueOfKind(gcode, "layer", ProfileKnownAt(gcode))
        ELSE /\ profile[1].exc = "ValueError"
             /\ apc = "raised"
             /\ nozzle_diameter = None

\* a file with `; nozzle_diameter = 0.4`, `; layer_height = 0.2` and a line
\* behind them: (0.4, 0.2) is returned after two of the three lines
WitnessC16 ==
    /\ profile # None
    /\ Len(gcode) = 3
    /\ gcode[1] = Line("nozzle", 4)
    /\ gcode[2] = Line("layer", 2)
    /\ profile[1] = [exc |-> "none", nozzle |-> 4, layer |-> 2, read |-> 2]

\* a volume loop is running
Scanning == apc \in { "support_loop", "non_support_loop" }

RegionMarkers == { "type_support", "type_other" }

\* the most recent region-type marker among the first n lines is the
\* support marker
LastMarkerIsSupport(g, n) ==
    /\ LinesOfKind(g, RegionMarkers, n) # {}
    /\ g[Maximum(LinesOfKind(g, RegionMarkers, n))].kind = "type_support"

PreviousExtrusion(g, n) ==
    IF LinesOfKind(g, { "g1e" }, n - 1) = {} THEN 0
    ELSE LastValueOfKind(g, "g1e", n - 1)

\* C18 (as claimed): the length a volume loop adds for an extrusion line is
\* that line's value minus the value of the extrusion line before it in the
\* file, whichever region that line belonged to.
ClaimC18 ==
    (Scanning /\ scan.added # None)
        => scan.added[1] = gcode[scan.i - 1].val - PreviousExtrusion(gcode, scan.i - 1)

\* both volume functions have returned
VolumesKnown == support_volume # None /\ non_support_volume # None

\* the extrusion values of a file never decrease
NonDecreasing(g) ==
    \A j \in LinesOfKind(g, { "g1e" }, Len(g)) : PreviousExtrusion(g, j) <= g[j].val

\* C19: for a file without support marker whose extrusion values never
\* decrease and end at L, the non-support volume is the volume of length L
\* and the support volume is 0.
ClaimC19 ==
    (/\ VolumesKnown
     /\ LinesOfKind(gcode, { "type_support" }, Len(gcode)) = {}
     /\ NonDecreasing(gcode))
        => /\ non_support_volume[1] =
                CylinderVolume(nozzle_diameter[1], PreviousExtrusion(gcode, Len(gcode) + 1))
           /\ support_volume[1] = 0

\* three non-support moves to E1, E1, E2
WitnessC19 ==
    /\ VolumesKnown
    /\ Len(gcode) = 4
    /\ gcode[1].kind = "type_other"
    /\ gcode[2] = Line("g1e", 1)
    /\ gcode[3] = Line("g1e", 1)
    /\ gcode[4] = Line("g1e", 2)
    /\ non_support_volume[1] = CylinderVolume(nozzle_diameter[1], 2)

\* C20: estimate_fraction_of_support_material, the profile found, raises and
\* returns nothing when the two volumes sum to zero, and returns a fraction
\* with a non-zero total otherwise.
ClaimC20 ==
    (entry = "fraction" /\ VolumesKnown /\ apc \in { "done", "raised" })
        => IF support_volume[1] + non_support_volume[1] = 0
           THEN apc = "raised" /\ aerror = "ValueError" /\ fraction = None
           ELSE /\ apc = "done"
                /\ aerror = "none"
                /\ fraction # None
                /\ fraction[1].den # 0
                /\ fraction[1].den = support_volume[1] + non_support_volume[1]
                /\ fraction[1].num = support_volume[1]

\* both comments, moves that extrude nothing: the zero-volume error
WitnessC20 ==
    /\ entry = "fraction"
    /\ apc = "raised"
    /\ profile[1].exc = "none"
    /\ LinesOfKind(gcode, { "g1e" }, Len(gcode)) # {}

\* the volume loops, line by line, return what the volume functions return
ScanAgrees ==
    /\ support_volume # None
         => support_volume[1] = EstimateSupportVolume(gcode, nozzle_diameter[1])
    /\ non_support_volume # None
         => non_support_volume[1] = EstiamteNonSupportVolume(gcode, nozzle_diameter[1])

\* how the running call ended, in the form in which `first` logs it
CallEnded ==
    [apc |-> apc, profile |-> profile, support_volume |-> support_volume,
     non_support_volume |-> non_support_volume, fraction |-> fraction,
     aerror |-> aerror]

\* C21: when the same analysis call is made twice on the same file, the
\* second call ends as the first did (the same profile, the same two volumes
\* and the same fraction, or the same error), and no step of the analysis
\* changes the file.
ClaimC21 ==
    /\ []((first # None /\ apc \in { "done", "raised" }) => CallEnded = first[1])
    /\ [][gcode' = gcode]_vars

\* the fraction of a file with support extrusion, computed a second time
WitnessC21 ==
    /\ first # None
    /\ apc = "done"
    /\ entry = "fraction"
    /\ fraction # None
    /\ support_volume[1] > 0

\* the outcome list of a search: one entry per attempt, in attempt order
OutcomeList ==
    [k \in 1..Len(attempts) |->
        [axis |-> attempts[k].axis, degrees |-> attempts[k].degrees,
         outcome |-> attempts[k].outcome]]

\* C22 (as claimed): the error raised by an exhausted search carries the
\* outcome list of the search: six entries, in attempt order, each Warned or
\* Failed.
ClaimC22 ==
    (pc = "raised" /\ error = "RuntimeError")
        => /\ Len(attempts) = 6
           /\ \A k \in 1..6 : attempts[k].outcome \in { "Warned", "Failed" }
           /\ \E k \in 1..Len(error_args) :
                 /\ error_args[k].type = "list"
                 /\ error_args[k].value = OutcomeList

\* the (axis, degrees) pair a slicer command was built for
Rotation(cmd) == [axis |-> cmd.rotate_axis, degrees |-> cmd.rotate]

\* C27: a search invokes the Executor at most 6 times, never twice with the
\* same (axis, degrees) pair, and each pair has its axis in {x, y} and its
\* degrees in {0, 90, 180, 270}.
ClaimC27 ==
    /\ Len(slicer_cmds) <= 6
    /\ Len(attempts) = Len(slicer_cmds)
    /\ \A j, k \in 1..Len(slicer_cmds) :
          j # k => Rotation(slicer_cmds[j]) # Rotation(slicer_cmds[k])
    /\ \A k \in 1..Len(slicer_cmds) :
          /\ slicer_cmds[k].rotate_axis \in { "x", "y" }
          /\ slicer_cmds[k].rotate \in { 0, 90, 180, 270 }

\* a search that ends after six invocations, none accepted
WitnessC27 ==
    /\ pc = "raised"
    /\ error = "RuntimeError"
    /\ Len(slicer_cmds) = 6
    /\ Cardinality({ Rotation(slicer_cmds[k]) : k \in 1..6 }) = 6

\* C28 (as claimed): for a file whose extrusion values never decrease, the
\* support volume plus the non-support volume is the volume of the final
\* extrusion value (the two extruded lengths add up to that value), wherever
\* the region markers are.
ClaimC28 ==
    (VolumesKnown /\ NonDecreasing(gcode))
        => support_volume[1] + non_support_volume[1] =
               CylinderVolume(nozzle_diameter[1], PreviousExtrusion(gcode, Len(gcode) + 1))

\* a returned fraction num / den lies in [0, 1]
InUnitInterval(f) ==
    \/ f.den > 0 /\ 0 <= f.num /\ f.num <= f.den
    \/ f.den < 0 /\ f.den <= f.num /\ f.num <= 0

\* C29: for a file with both profile comments whose extrusion values never
\* decrease, both volumes are non-negative and a returned fraction lies in
\* [0, 1].  (That a file with a decreasing value can give a fraction outside
\* [0, 1], returned without an error, is the witness.)
ClaimC29 ==
    (NonDecreasing(gcode) /\ apc \in { "sum", "done", "raised" })
        => /\ support_volume[1] >= 0
           /\ non_support_volume[1] >= 0
           /\ fraction # None => InUnitInterval(fraction[1])

\* a retraction in the file, and a fraction outside [0, 1] returned
WitnessC29 ==
    /\ ~NonDecreasing(gcode)
    /\ apc = "done"
    /\ aerror = "none"
    /\ fraction # None
    /\ ~InUnitInterval(fraction[1])

\* a non-decreasing file with extrusion in both regions has its fraction
\* returned
NonDecreasingReturned ==
    /\ NonDecreasing(gcode)
    /\ apc = "done"
    /\ fraction # None
    /\ 0 < fraction[1].num
    /\ fraction[1].num < fraction[1].den

\* C24: two instances that search the same part into the same folder ask
\* the slicer for one and the same output path in all their attempts, and
\* an instance returns that path only after an attempt of its own was Clean.
\* (That the file an instance returns can be the output of a non-Clean
\* attempt of the other instance is the witness.)
ClaimC24 ==
    /\ \A i, j \in DOMAIN orch :
          (orch[i].output # None /\ orch[j].output # None)
              => orch[i].output = orch[j].output
    /\ \A i \in DOMAIN orch :
          orch[i].pc = "returned"
              => /\ orch[i].result = orch[i].output
                 /\ IsClean(orch[i].proc[1])

\* an instance has returned, and at that moment the file at the returned
\* path was the output of a non-Clean attempt of the other instance
WitnessC24 ==
    \E i \in DOMAIN orch :
        /\ orch[i].pc = "returned"
        /\ orch[i].artifact # None
        /\ orch[i].artifact[1].instance # i
        /\ orch[i].artifact[1].outcome # "Clean"

\* C25: get_config_parameter(p), called when set_config_parameter(p, v) has
\* returned before (and no later one for p), returns v, whether or not the
\* file had p before the set.
ClaimC25 ==
    (/\ cfg_last # None
     /\ cfg_last[1].op = "get"
     /\ cfg_last[1].parameter \in DOMAIN cfg_written)
        => /\ cfg_last[1].exc = "none"
           /\ cfg_last[1].ret = Some(cfg_written[cfg_last[1].parameter])

\* a parameter and a value with characters JSON escapes, the parameter not
\* in the file before: read back as written
WitnessC25 ==
    /\ cfg_last # None
    /\ cfg_last[1].op = "get"
    /\ cfg_last[1].parameter = << Backslash, Quote >>
    /\ << Backslash, Quote >> \in DOMAIN cfg_written
    /\ cfg_written[<< Backslash, Quote >>] = << Quote, "u", Backslash >>
    /\ cfg_last[1].ret = Some(<< Quote, "u", Backslash >>)

RECURSIVE PathsIn(_)
\* the file paths in the lists of a file dictionary, at any depth, one
\* element per occurrence, in iteration order
PathsIn(items) ==
    IF items = <<>> THEN <<>>
    ELSE (IF Head(items).value.tag = "dict" THEN PathsIn(Head(items).value.sub)
          ELSE Head(items).value.files) \o PathsIn(Tail(items))

RECURSIVE HasOtherValue(_)
\* some value of the dictionary, at any depth, is neither a dict nor a list
HasOtherValue(items) ==
    /\ items # <<>>
    /\ \/ Head(items).value.tag = "str"
       \/ Head(items).value.tag = "dict" /\ HasOtherValue(Head(items).value.sub)
       \/ HasOtherValue(Tail(items))

\* the call raised ValueError exactly for a value that is neither a dict
\* nor a list, and otherwise returned one item per path: its base name,
\* quantity 1
PartsAsListed ==
    parts_data # None =>
        IF HasOtherValue(file_dict[1])
        THEN parts_data[1].exc = "ValueError"
        ELSE /\ parts_data[1].exc = "none"
             /\ Len(parts_data[1].items) = Len(PathsIn(file_dict[1]))
             /\ \A k \in 1..Len(parts_data[1].items) :
                   /\ parts_data[1].items[k].file_path = PathsIn(file_dict[1])[k]
                   /\ parts_data[1].items[k].part_name = PathsIn(file_dict[1])[k].name
                   /\ parts_data[1].items[k].quantity = 1

\* C26 (as claimed): parts_data_from_file_dict raises ValueError for a value
\* that is neither a dict nor a list, and otherwise returns one item per file
\* path at any depth (base name, quantity 1), each an STLFile of
\* auto_slicer.definitions.
ClaimC26 ==
    /\ PartsAsListed
    /\ parts_data # None =>
          \A k \in 1..Len(parts_data[1].items) :
              parts_data[1].items[k].cls = DefinitionsSTLFile

\* the tool and bed targets pre_heat has sent, in order
TargetsSent == SelectSeq(requests, LAMBDA r : r.op \in { "tool_target", "bed_target" })

\* the operations on the client after the check of the print job
AfterCheck ==
    IF reported = None THEN <<>>
    ELSE LET k == CHOOSE j \in 1..Len(requests) : requests[j].op = "printer"
         IN  SubSeq(requests, k + 1, Len(requests))

HeatEnded == hpc \in { "done", "raised" }

\* the printer reported printing: RuntimeError, and neither target sent
RefusedWhenReportedPrinting ==
    (HeatEnded /\ reported = Some(TRUE)) =>
        (herror = "RuntimeError" /\ TargetsSent = <<>>)

\* C30 (as claimed): pre_heat never sends a target while a print job is
\* active; when the printer reports printing it raises RuntimeError and
\* sends neither target; when it reports not printing it sends both, with
\* nothing between the check and the two calls.
ClaimC30 ==
    /\ \A k \in 1..Len(TargetsSent) : ~TargetsSent[k].printing
    /\ RefusedWhenReportedPrinting
    /\ (HeatEnded /\ reported = Some(FALSE)) =>
          /\ Len(AfterCheck) = 2
          /\ AfterCheck[1].op = "tool_target"
          /\ AfterCheck[2].op = "bed_target"

\* C30 (amended): pre_heat sends a target only after the printer reported
\* not printing at its check; a report of printing ends it with RuntimeError
\* and no target, and only such a report does; a report of not printing is
\* followed by tool_target and then bed_target with the arguments of the
\* call and nothing between, up to the first request that fails.
ClaimC30Amended ==
    /\ TargetsSent # <<>> => reported = Some(FALSE)
    /\ RefusedWhenReportedPrinting
    /\ herror = "RuntimeError" => reported = Some(TRUE)
    /\ reported = Some(FALSE) =>
          /\ AfterCheck = TargetsSent
          /\ Len(AfterCheck) <= 2
          /\ Len(AfterCheck) >= 1 =>
                /\ AfterCheck[1].op = "tool_target"
                /\ AfterCheck[1].arg = Some(heat_call[1].tool_target)
          /\ Len(AfterCheck) = 2 =>
                /\ AfterCheck[2].op = "bed_target"
                /\ AfterCheck[2].arg = Some(heat_call[1].bed_target)
          /\ hpc = "done" => Len(AfterCheck) = 2
          /\ hpc = "raised" => (herror = "RequestException" /\ Len(AfterCheck) < 2)

\* both targets were sent, the second to a printer that had started a print
\* job after the check
WitnessC30 ==
    /\ hpc = "done"
    /\ Len(TargetsSent) = 2
    /\ TargetsSent[2].printing
    /\ heat_call = Some([tool_target |-> DefaultToolTarget, bed_target |-> DefaultBedTarget])

====
